---- MODULE Spec2Model ----
(***************************************************************************)
(* Stream adapters of flate2's deflate module (src/src/deflate.rs):        *)
(* EncoderWriter, DecoderWriter (push), EncoderReader(Buf),                *)
(* DecoderReader(Buf) (pull).  The adapters are thin wrappers around       *)
(* zio::Writer, zio::read, bufreader::BufReader and the Compress /         *)
(* Decompress engines; those live outside deflate.rs and are modelled      *)
(* from the design document (spec.md sections 3, 4 and 6).                 *)
(***************************************************************************)
EXTENDS Integers, Sequences, FiniteSets, TLC

\* ------------------------------------------------------------------ bounds
MaxLen == 3        \* longest raw payload of one logical stream
MaxChunk == 2      \* longest slice handed to one write_all call
MaxRead == 2       \* largest caller buffer handed to one read call
MaxAccept == 2     \* a sink accepts 1..MaxAccept bytes per write call
MaxWin == 2        \* BufReader window capacities are 1..MaxWin
MaxFill == 2       \* a source returns at most 1..MaxFill bytes per read call
MaxTrail == 2      \* longest run of bytes that follows a complete stream
BufCap == 2        \* capacity of zio::Writer's Pending Output Buffer
BlockMax == 2      \* literals per block of the stand-in codec
PendMax == 3       \* the compressor stops taking input at this backlog

\* ----------------------------------------------------------------- helpers
Min(a, b) == IF a < b THEN a ELSE b

Take(s, n) == SubSeq(s, 1, Min(n, Len(s)))

Drop(s, n) == SubSeq(s, Min(n, Len(s)) + 1, Len(s))

RECURSIVE SeqsUpTo(_, _)
SeqsUpTo(S, n) ==
    IF n = 0 THEN {<<>>}
    ELSE LET shorter == SeqsUpTo(S, n - 1)
         IN shorter \cup {Append(s, x) : s \in {t \in shorter : Len(t) = n - 1}, x \in S}

\* The payload alphabet.
Byte == {0, 1}

\* --------------------------------------------------- the codec engine
\* The engine is an external collaborator (spec.md section 1): a black box with
\* compress/decompress(input, output, flush) -> (consumed, produced, status),
\* running counters and reset.  The stand-in is a block codec: a block of n
\* literals is a header byte 3 + n followed by the literals shifted by 16; a
\* sync flush is the two bytes 0 0; the stream is closed by the two bytes 3 0.
SyncMark == <<0, 0>>

EndMark == <<3, 0>>

EncLit(b) == b + 16

Block(h) == <<3 + Len(h)>> \o [i \in 1..Len(h) |-> EncLit(h[i])]

Compress_new ==
    [kind |-> "Compress", hold |-> <<>>, pend |-> <<>>,
     total_in |-> 0, total_out |-> 0, fin |-> FALSE]

\* Input is taken byte by byte into the look-ahead `hold`; a full look-ahead
\* becomes a block of pending output.  No input is taken once the stream is
\* closed or while the backlog of pending output is PendMax or more.
RECURSIVE Compress_feed(_, _)
Compress_feed(c, input) ==
    IF input = <<>> \/ c.fin \/ Len(c.pend) >= PendMax THEN c
    ELSE LET h == Append(c.hold, Head(input))
             full == Len(h) = BlockMax
         IN Compress_feed([c EXCEPT !.hold = IF full THEN <<>> ELSE h,
                                    !.pend = IF full THEN @ \o Block(h) ELSE @,
                                    !.total_in = @ + 1],
                          Tail(input))

\* A flush request takes effect once the whole input has been taken: a sync
\* flush closes the open block and appends the sync marker, a finish closes
\* the block and appends the end-of-stream marker (once).
Compress_close(c1, want, flush) ==
    IF c1.total_in # want \/ c1.fin \/ flush = "None" THEN c1
    ELSE [c1 EXCEPT !.hold = <<>>,
                    !.pend = @ \o (IF c1.hold = <<>> THEN <<>> ELSE Block(c1.hold))
                               \o (IF flush = "Sync" THEN SyncMark ELSE EndMark),
                    !.fin = (flush = "Finish")]

\* Hand out as much pending output as the caller's buffer takes.
Compress_emit(c, c2, cap, flush) ==
    [data |-> [c2 EXCEPT !.pend = Drop(@, cap), !.total_out = @ + Min(cap, Len(c2.pend))],
     out |-> Take(c2.pend, cap),
     status |-> IF c2.fin /\ Len(c2.pend) <= cap /\ flush = "Finish" THEN "StreamEnd"
                ELSE IF c2.total_in = c.total_in /\ Min(cap, Len(c2.pend)) = 0
                  THEN "BufError"
                ELSE "Ok"]

Compress_run(c, input, cap, flush) ==
    Compress_emit(c, Compress_close(Compress_feed(c, input), c.total_in + Len(input), flush),
                  cap, flush)

Decompress_new ==
    [kind |-> "Decompress", mode |-> "hdr", rem |-> 0,
     total_in |-> 0, total_out |-> 0]

\* One input byte at a time: a header, the second byte of a marker, or a
\* literal (which needs room in the output).  Nothing is consumed after the
\* end-of-stream marker, nor after malformed input.
RECURSIVE Decompress_feed(_, _, _, _)
Decompress_feed(d, input, out, cap) ==
    IF input = <<>> \/ d.mode \in {"done", "bad"} THEN [data |-> d, out |-> out]
    ELSE
      LET b == Head(input) IN
      IF d.mode = "hdr" THEN
          LET m == IF b = SyncMark[1] THEN "sync"
                   ELSE IF b = EndMark[1] THEN "end"
                   ELSE IF b > 3 /\ b <= 3 + BlockMax THEN "lit"
                   ELSE "bad"
          IN Decompress_feed([d EXCEPT !.mode = m,
                                       !.rem = IF m = "lit" THEN b - 3 ELSE 0,
                                       !.total_in = @ + 1],
                             Tail(input), out, cap)
      ELSE IF d.mode = "sync" THEN
          Decompress_feed([d EXCEPT !.mode = IF b = SyncMark[2] THEN "hdr" ELSE "bad",
                                    !.total_in = @ + 1],
                          Tail(input), out, cap)
      ELSE IF d.mode = "end" THEN
          Decompress_feed([d EXCEPT !.mode = IF b = EndMark[2] THEN "done" ELSE "bad",
                                    !.total_in = @ + 1],
                          Tail(input), out, cap)
      ELSE \* "lit"
          IF Len(out) >= cap THEN [data |-> d, out |-> out]
          ELSE IF b < 16 THEN
              [data |-> [d EXCEPT !.mode = "bad", !.total_in = @ + 1], out |-> out]
          ELSE Decompress_feed([d EXCEPT !.mode = IF d.rem = 1 THEN "hdr" ELSE "lit",
                                         !.rem = @ - 1,
                                         !.total_in = @ + 1,
                                         !.total_out = @ + 1],
                               Tail(input), Append(out, b - 16), cap)

\* Input that stops short of the end-of-stream marker is a data error once
\* the caller says that no more input will come.
Decompress_status(d, r, want, flush) ==
    [data |-> r.data,
     out |-> r.out,
     status |-> IF r.data.mode = "bad" THEN "DataError"
                ELSE IF r.data.mode = "done" THEN "StreamEnd"
                ELSE IF flush = "Finish" /\ r.data.total_in = want THEN "DataError"
                ELSE IF r.data.total_in = d.total_in /\ r.out = <<>> THEN "BufError"
                ELSE "Ok"]

Decompress_run(d, input, cap, flush) ==
    Decompress_status(d, Decompress_feed(d, input, <<>>, cap), d.total_in + Len(input), flush)

\* trait Ops: the pump drives either engine through one entry point.
Ops_run(data, input, cap, flush) ==
    IF data.kind = "Compress" THEN Compress_run(data, input, cap, flush)
    ELSE Decompress_run(data, input, cap, flush)

Ops_finished(data) ==
    IF data.kind = "Compress" THEN data.fin /\ data.pend = <<>>
    ELSE data.mode = "done"

\* ------------------------------------------------------------- sinks
\* A writable stream (spec.md section 6): write(buf) -> bytes_written, partial
\* writes are legal.  A Vec-like sink takes at most `per` bytes per call and
\* fails with an I/O error once `room` has run out (room = -1: never).
Vec_new(id, per, room) ==
    [kind |-> "Vec", id |-> id, bytes |-> <<>>, per |-> per, room |-> room,
     flushed |-> 0]

Vec_take(s, buf, n) ==
    [self |-> [s EXCEPT !.bytes = @ \o Take(buf, n),
                        !.room = IF @ < 0 THEN @ ELSE @ - n],
     ret |-> n, err |-> "none"]

\* flush(): everything the sink holds has reached the true destination.
Vec_flush(s) == [self |-> [s EXCEPT !.flushed = Len(s.bytes)], err |-> "none"]

Vec_write(s, buf) ==
    IF buf = <<>> THEN [self |-> s, ret |-> 0, err |-> "none"]
    ELSE IF s.room = 0 THEN [self |-> s, ret |-> 0, err |-> "io"]
    ELSE Vec_take(s, buf, Min(Min(Len(buf), s.per), IF s.room < 0 THEN Len(buf) ELSE s.room))

RECURSIVE Write_write(_, _)

RECURSIVE Write_flush(_)

\* std::io::Write::write_all: call write until the whole slice is taken; a
\* write that returns 0 is the WriteZero error.
RECURSIVE Write_all(_, _)
Write_all_next(r, buf) ==
    IF r.err # "none" THEN [self |-> r.self, err |-> r.err]
    ELSE IF r.ret = 0 THEN [self |-> r.self, err |-> "zero"]
    ELSE Write_all(r.self, Drop(buf, r.ret))

Write_all(s, buf) ==
    IF buf = <<>> THEN [self |-> s, err |-> "none"]
    ELSE Write_all_next(Write_write(s, buf), buf)

\* ------------------------------------------------- zio::Writer (push pump)
\* obj: the sink, data: the CodecState, buf: the Pending Output Buffer.  Two
\* history fields record what the pump did: made is everything the engine has
\* written into the buffer for the current sink, dirty says that an engine
\* call has written into a buffer that was not empty.
Writer_new(w, d) == [obj |-> w, data |-> d, buf |-> <<>>, made |-> <<>>, dirty |-> FALSE]

\* An engine call with result r: its output is appended to the buffer.
Writer_ran(w0, r) ==
    [w0 EXCEPT !.data = r.data, !.buf = @ \o r.out, !.made = @ \o r.out,
               !.dirty = @ \/ (w0.buf # <<>>)]

\* Forward the whole Pending Output Buffer, retrying partial sink writes.
RECURSIVE Writer_dump(_)
Writer_dump_next(w, r) ==
    IF r.err # "none" THEN [self |-> [w EXCEPT !.obj = r.self], err |-> r.err]
    ELSE IF r.ret = 0 THEN [self |-> [w EXCEPT !.obj = r.self], err |-> "zero"]
    ELSE Writer_dump([w EXCEPT !.obj = r.self, !.buf = Drop(@, r.ret)])

Writer_dump(w) ==
    IF w.buf = <<>> THEN [self |-> w, err |-> "none"]
    ELSE Writer_dump_next(w, Write_write(w.obj, w.buf))

\* pump_write: engine call into the (empty) Pending Output Buffer, forward it
\* all, repeat until the input is consumed or the engine makes no progress.
RECURSIVE Writer_write_from(_, _, _)
Writer_write_end(w0, r, d1, input, taken) ==
    IF d1.err # "none" THEN [self |-> d1.self, ret |-> 0, err |-> d1.err]
    ELSE IF r.status = "DataError" THEN [self |-> d1.self, ret |-> 0, err |-> "data"]
    ELSE IF r.data.total_in - w0.data.total_in = Len(input) - taken
            \/ r.status = "StreamEnd"
            \/ (r.data.total_in = w0.data.total_in /\ r.out = <<>>)
      THEN [self |-> d1.self, ret |-> taken + r.data.total_in - w0.data.total_in,
            err |-> "none"]
    ELSE Writer_write_from(d1.self, input, taken + r.data.total_in - w0.data.total_in)

Writer_write_fwd(w0, r, input, taken) ==
    Writer_write_end(w0, r, Writer_dump(Writer_ran(w0, r)),
                     input, taken)

Writer_write_run(d0, input, taken) ==
    IF d0.err # "none" THEN [self |-> d0.self, ret |-> 0, err |-> d0.err]
    ELSE Writer_write_fwd(d0.self, Ops_run(d0.self.data, Drop(input, taken), BufCap, "None"),
                          input, taken)

Writer_write_from(w, input, taken) == Writer_write_run(Writer_dump(w), input, taken)

Writer_write(w, input) == Writer_write_from(w, input, 0)

\* pump_finish: drive the engine to its end-of-stream and forward everything.
\* On a CodecState that is already finished no engine call is made.
RECURSIVE Writer_finish(_)
Writer_finish_end(w0, r) ==
    IF r.status = "DataError"
      THEN [self |-> Writer_ran(w0, r), err |-> "data"]
    ELSE IF r.out = <<>>
      THEN [self |-> Writer_ran(w0, r), err |-> "none"]
    ELSE Writer_finish(Writer_ran(w0, r))

Writer_finish_run(d0) ==
    IF d0.err # "none" THEN [self |-> d0.self, err |-> d0.err]
    ELSE IF Ops_finished(d0.self.data) THEN [self |-> d0.self, err |-> "none"]
    ELSE Writer_finish_end(d0.self, Ops_run(d0.self.data, <<>>, BufCap, "Finish"))

Writer_finish(w) == Writer_finish_run(Writer_dump(w))

\* pump_flush: one engine call with a sync flush, then forward and call the
\* engine again (no flush) until it has nothing more to give, then flush the
\* sink itself.  The stream is not ended.
RECURSIVE Writer_flush_drain(_)
Writer_flush_sink(w, f) == [self |-> [w EXCEPT !.obj = f.self], err |-> f.err]

Writer_flush_more(w0, r) ==
    IF r.status = "DataError"
      THEN [self |-> Writer_ran(w0, r), err |-> "data"]
    ELSE IF r.out = <<>>
      THEN Writer_flush_sink(Writer_ran(w0, r), Write_flush(w0.obj))
    ELSE Writer_flush_drain(Writer_ran(w0, r))

Writer_flush_dumped(d0) ==
    IF d0.err # "none" THEN [self |-> d0.self, err |-> d0.err]
    ELSE Writer_flush_more(d0.self, Ops_run(d0.self.data, <<>>, BufCap, "None"))

Writer_flush_drain(w) == Writer_flush_dumped(Writer_dump(w))

Writer_flush_sync(w0, r) ==
    IF r.status = "DataError"
      THEN [self |-> Writer_ran(w0, r), err |-> "data"]
    ELSE Writer_flush_drain(Writer_ran(w0, r))

Writer_flush_run(d0) ==
    IF d0.err # "none" THEN [self |-> d0.self, err |-> d0.err]
    ELSE Writer_flush_sync(d0.self, Ops_run(d0.self.data, <<>>, BufCap, "Sync"))

Writer_flush(w) == Writer_flush_run(Writer_dump(w))

Writer_replace(w, s) == [self |-> [w EXCEPT !.obj = s, !.made = <<>>], ret |-> w.obj]

Writer_into_inner(w) == w.obj

\* Teardown: a best-effort finish whose error is discarded.  The result is
\* the sink as the teardown leaves it.
Writer_drop(w) == Writer_finish(w).self.obj

\* ------------------------------------------------ deflate.rs: push adapters
\* The result of an io::Result<W> method: the adapter afterwards, the sink
\* given back (on Ok) and the error (on Err).
Failed(e, f) == [self |-> [e EXCEPT !.inner = f.self], ret |-> <<>>, err |-> f.err]

EncoderWriter_new(w) ==
    [kind |-> "EncoderWriter", inner |-> Writer_new(w, Compress_new)]

Compress_reset(c) == Compress_new

\* Variant: the engine is not reset between the two streams.
EncoderWriter_reset_stale(e, w) ==
    IF Writer_finish(e.inner).err # "none" THEN Failed(e, Writer_finish(e.inner))
    ELSE [self |-> [e EXCEPT !.inner = Writer_replace(Writer_finish(e.inner).self, w).self],
          ret |-> Writer_replace(Writer_finish(e.inner).self, w).ret,
          err |-> "none"]

\* Variant: the error of finish is dropped and the sinks are swapped anyway.
EncoderWriter_reset_anyway(e, w) ==
    [self |-> [e EXCEPT !.inner = Writer_replace(
                   [Writer_finish(e.inner).self EXCEPT !.data = Compress_reset(@)], w).self],
     ret |-> Writer_replace(Writer_finish(e.inner).self, w).ret,
     err |-> Writer_finish(e.inner).err]

\* try!(self.inner.finish()); self.inner.data.reset(); Ok(self.inner.replace(w))
EncoderWriter_reset_swap(e, f, w) ==
    IF f.err # "none" THEN Failed(e, f)
    ELSE [self |-> [e EXCEPT !.inner = Writer_replace(
                                 [f.self EXCEPT !.data = Compress_reset(@)], w).self],
          ret |-> Writer_replace(f.self, w).ret,
          err |-> "none"]

EncoderWriter_reset(e, w) == EncoderWriter_reset_swap(e, Writer_finish(e.inner), w)

\* Variant: the sink is given back without finishing the stream.
EncoderWriter_finish_unclosed(e) ==
    [self |-> e, ret |-> Writer_into_inner(e.inner), err |-> "none"]

\* Variant: finish takes the stream for open whatever the engine says.
EncoderWriter_finish_reopen(e) ==
    IF Writer_finish([e.inner EXCEPT !.data.fin = FALSE]).err # "none"
      THEN Failed(e, Writer_finish([e.inner EXCEPT !.data.fin = FALSE]))
    ELSE [self |-> [e EXCEPT !.inner = Writer_finish([e.inner EXCEPT !.data.fin = FALSE]).self],
          ret |-> Writer_into_inner(Writer_finish([e.inner EXCEPT !.data.fin = FALSE]).self),
          err |-> "none"]

\* try!(self.inner.finish()); Ok(self.inner.into_inner())
EncoderWriter_finish_ret(e, f) ==
    IF f.err # "none" THEN Failed(e, f)
    ELSE [self |-> [e EXCEPT !.inner = f.self], ret |-> Writer_into_inner(f.self),
          err |-> "none"]

EncoderWriter_finish(e) == EncoderWriter_finish_ret(e, Writer_finish(e.inner))

\* try!(self.inner.flush()); Ok(self.inner.into_inner())
EncoderWriter_flush_finish_ret(e, f) ==
    IF f.err # "none" THEN Failed(e, f)
    ELSE [self |-> [e EXCEPT !.inner = f.self], ret |-> Writer_into_inner(f.self),
          err |-> "none"]

EncoderWriter_flush_finish(e) == EncoderWriter_flush_finish_ret(e, Writer_flush(e.inner))

Wrote(e, r) == [self |-> [e EXCEPT !.inner = r.self], ret |-> r.ret, err |-> r.err]

\* The result of an io::Result<()> method.
Flushed(e, f) == [self |-> [e EXCEPT !.inner = f.self], err |-> f.err]

\* Variant: flush reports success and does nothing.
EncoderWriter_flush_lazy(e) == [self |-> e, err |-> "none"]

EncoderWriter_flush(e) == Flushed(e, Writer_flush(e.inner))

\* Variant: write hands the bytes to the wrapped sink, past the codec.
EncoderWriter_write_raw(e, buf) ==
    [self |-> [e EXCEPT !.inner.obj = Write_write(e.inner.obj, buf).self],
     ret |-> Write_write(e.inner.obj, buf).ret,
     err |-> Write_write(e.inner.obj, buf).err]

\* Variant: the first byte the engine produced is put back into the Pending
\* Output Buffer before the write.
EncoderWriter_write_resend(e, buf) ==
    Wrote(e, Writer_write([e.inner EXCEPT !.buf = Take(e.inner.made, 1) \o @], buf))

EncoderWriter_write(e, buf) == Wrote(e, Writer_write(e.inner, buf))

\* Variant: the zio::Writer is leaked, its teardown never runs.
EncoderWriter_drop_forget(e) == e.inner.obj

\* The adapter owns `inner`; dropping the adapter drops the zio::Writer.
EncoderWriter_drop(e) == Writer_drop(e.inner)

DecoderWriter_new(w) ==
    [kind |-> "DecoderWriter", inner |-> Writer_new(w, Decompress_new)]

\* try!(self.inner.finish()); self.inner.data = Decompress::new(false);
\* Ok(self.inner.replace(w))
DecoderWriter_reset_swap(e, f, w) ==
    IF f.err # "none" THEN Failed(e, f)
    ELSE [self |-> [e EXCEPT !.inner = Writer_replace(
                                 [f.self EXCEPT !.data = Decompress_new], w).self],
          ret |-> Writer_replace(f.self, w).ret,
          err |-> "none"]

DecoderWriter_reset(e, w) == DecoderWriter_reset_swap(e, Writer_finish(e.inner), w)

\* Variant: the sink is given back without finishing the stream.
DecoderWriter_finish_unclosed(e) ==
    [self |-> e, ret |-> Writer_into_inner(e.inner), err |-> "none"]

DecoderWriter_finish_ret(e, f) ==
    IF f.err # "none" THEN Failed(e, f)
    ELSE [self |-> [e EXCEPT !.inner = f.self], ret |-> Writer_into_inner(f.self),
          err |-> "none"]

DecoderWriter_finish(e) == DecoderWriter_finish_ret(e, Writer_finish(e.inner))

DecoderWriter_total_in(e) == e.inner.data.total_in

DecoderWriter_total_out(e) == e.inner.data.total_out

\* Variant: write hands the bytes to the wrapped sink, past the codec.
DecoderWriter_write_raw(e, buf) ==
    [self |-> [e EXCEPT !.inner.obj = Write_write(e.inner.obj, buf).self],
     ret |-> Write_write(e.inner.obj, buf).ret,
     err |-> Write_write(e.inner.obj, buf).err]

\* Variant: write reports the whole slice as taken.
DecoderWriter_write_whole(e, buf) ==
    [self |-> [e EXCEPT !.inner = Writer_write(e.inner, buf).self],
     ret |-> Len(buf),
     err |-> Writer_write(e.inner, buf).err]

DecoderWriter_write(e, buf) == Wrote(e, Writer_write(e.inner, buf))

DecoderWriter_flush(e) == Flushed(e, Writer_flush(e.inner))

DecoderWriter_drop(e) == Writer_drop(e.inner)

\* trait Write, by the type of the stream.
Write_write(s, buf) ==
    IF s.kind = "Vec" THEN Vec_write(s, buf)
    ELSE IF s.kind = "EncoderWriter" THEN EncoderWriter_write(s, buf)
    ELSE DecoderWriter_write(s, buf)

Write_flush(s) ==
    IF s.kind = "Vec" THEN Vec_flush(s)
    ELSE IF s.kind = "EncoderWriter" THEN EncoderWriter_flush(s)
    ELSE DecoderWriter_flush(s)

\* ----------------------------------------------------------- sources
\* A readable stream (spec.md section 6): read(buf) -> bytes_read, 0 signals
\* end-of-stream, partial reads are legal.  A slice-like source returns at
\* most plan[pi] bytes per call, going round its plan.  A failing source
\* returns an I/O error from the read at the offset `fail` (-1: never);
\* errs counts the reads that failed.
Slice_new(data, plan) ==
    [kind |-> "Slice", data |-> data, pos |-> 0, plan |-> plan, pi |-> 1,
     fail |-> -1, errs |-> 0]

Slice_failing(data, plan, at) == [Slice_new(data, plan) EXCEPT !.fail = at]

Slice_give(s, k) ==
    [self |-> [s EXCEPT !.pos = @ + k, !.pi = (@ % Len(s.plan)) + 1],
     out |-> SubSeq(s.data, s.pos + 1, s.pos + k),
     err |-> "none"]

Slice_read(s, n) ==
    IF n = 0 THEN [self |-> s, out |-> <<>>, err |-> "none"]
    ELSE IF s.pos = s.fail THEN [self |-> [s EXCEPT !.errs = 1], out |-> <<>>, err |-> "io"]
    ELSE Slice_give(s, Min(Min(Min(n, Len(s.data) - s.pos), s.plan[s.pi]),
                           IF s.fail > s.pos THEN s.fail - s.pos ELSE n))

RECURSIVE Read_read(_, _)

\* std::io::Read::read_to_end with caller buffers of n bytes: read until a
\* read returns 0.
RECURSIVE Read_to_end_from(_, _, _)
Read_to_end_next(x, n, acc) ==
    IF x.err # "none" THEN [self |-> x.self, out |-> acc \o x.out, err |-> x.err]
    ELSE IF x.out = <<>> THEN [self |-> x.self, out |-> acc, err |-> "none"]
    ELSE Read_to_end_from(x.self, n, acc \o x.out)

Read_to_end_from(r, n, acc) == Read_to_end_next(Read_read(r, n), n, acc)

Read_to_end(r, n) == Read_to_end_from(r, n, <<>>)

\* ------------------------------------------- bufreader::BufReader
WinCap == 2        \* window capacity of BufReader::new

BufReader_with_buf(cap, r) == [inner |-> r, buf |-> <<>>, pos |-> 0, cap |-> cap]

BufReader_new(r) == BufReader_with_buf(WinCap, r)

\* The unread window.
BufReader_window(b) == Drop(b.buf, b.pos)

\* Refill from the source only when the window is exhausted.
BufReader_refill(b, x) ==
    IF x.err # "none" THEN [self |-> [b EXCEPT !.inner = x.self], err |-> x.err]
    ELSE [self |-> [b EXCEPT !.inner = x.self, !.buf = x.out, !.pos = 0], err |-> "none"]

BufReader_fill_buf(b) ==
    IF b.pos < Len(b.buf) THEN [self |-> b, err |-> "none"]
    ELSE BufReader_refill(b, Read_read(b.inner, b.cap))

BufReader_consume(b, n) == [b EXCEPT !.pos = Min(@ + n, Len(b.buf))]

\* Replace the source, returning the old one; the old window is discarded.
BufReader_reset(b, r) ==
    [self |-> [b EXCEPT !.inner = r, !.buf = <<>>, !.pos = 0], ret |-> b.inner]

\* --------------------------------------------------- zio::read (pull pump)
\* CodecState.finished: the decompressor has seen the end-of-stream marker, or
\* the compressor has been told to finish.
Ops_ended(data) ==
    IF data.kind = "Compress" THEN data.fin ELSE data.mode = "done"

RECURSIVE zio_read(_, _, _)
zio_read_end(obj, data, r, eof, n) ==
    IF r.status = "DataError"
      THEN [obj |-> BufReader_consume(obj, r.data.total_in - data.total_in),
            data |-> r.data, out |-> <<>>, err |-> "data"]
    ELSE IF r.out = <<>> /\ r.status # "StreamEnd" /\ ~eof
      THEN zio_read(BufReader_consume(obj, r.data.total_in - data.total_in), r.data, n)
    ELSE [obj |-> BufReader_consume(obj, r.data.total_in - data.total_in),
          data |-> r.data, out |-> r.out, err |-> "none"]

zio_read_run(obj, data, input, n) ==
    zio_read_end(obj, data,
                 Ops_run(data, input, n, IF input = <<>> THEN "Finish" ELSE "None"),
                 input = <<>>, n)

zio_read_filled(f, data, n) ==
    IF f.err # "none" THEN [obj |-> f.self, data |-> data, out |-> <<>>, err |-> f.err]
    ELSE zio_read_run(f.self, data, BufReader_window(f.self), n)

zio_read(obj, data, n) ==
    IF n = 0 THEN [obj |-> obj, data |-> data, out |-> <<>>, err |-> "none"]
    ELSE zio_read_filled(IF Ops_ended(data) THEN [self |-> obj, err |-> "none"]
                         ELSE BufReader_fill_buf(obj),
                         data, n)

\* ------------------------------------------------ deflate.rs: pull adapters
\* The result of read on a ...ReaderBuf: the pump's source and engine are the
\* adapter's obj and data.
Pumped(e, x) == [self |-> [e EXCEPT !.obj = x.obj, !.data = x.data], out |-> x.out, err |-> x.err]

\* The result of read on a ...Reader, which forwards to its inner ...ReaderBuf.
Forwarded(e, x) == [self |-> [e EXCEPT !.inner = x.self], out |-> x.out, err |-> x.err]

EncoderReaderBuf_new(r) ==
    [kind |-> "EncoderReaderBuf", obj |-> r, data |-> Compress_new]

EncoderReaderBuf_reset(e, r) ==
    [self |-> [e EXCEPT !.data = Compress_reset(@), !.obj = r], ret |-> e.obj]

\* Variant: one engine call per read, whatever it produced.
EncoderReaderBuf_read_once(e, n) ==
    IF n = 0 THEN Pumped(e, zio_read(e.obj, e.data, n))
    ELSE LET f == BufReader_fill_buf(e.obj).self
             r == Ops_run(e.data, BufReader_window(f), n,
                          IF BufReader_window(f) = <<>> THEN "Finish" ELSE "None")
         IN [self |-> [e EXCEPT !.obj = BufReader_consume(f, r.data.total_in - e.data.total_in),
                                !.data = r.data],
             out |-> r.out, err |-> "none"]

EncoderReaderBuf_read(e, n) == Pumped(e, zio_read(e.obj, e.data, n))

EncoderReader_new(r) ==
    [kind |-> "EncoderReader", inner |-> EncoderReaderBuf_new(BufReader_new(r))]

EncoderReader_reset(e, r) ==
    [self |-> [e EXCEPT !.inner.data = Compress_reset(@),
                        !.inner.obj = BufReader_reset(@, r).self],
     ret |-> BufReader_reset(e.inner.obj, r).ret]

\* Variant: read hands out the bytes of the wrapped source, past the codec.
EncoderReader_read_raw(e, n) ==
    [self |-> [e EXCEPT !.inner.obj.inner = Read_read(e.inner.obj.inner, n).self],
     out |-> Read_read(e.inner.obj.inner, n).out,
     err |-> Read_read(e.inner.obj.inner, n).err]

EncoderReader_read(e, n) == Forwarded(e, EncoderReaderBuf_read(e.inner, n))

DecoderReaderBuf_new(r) ==
    [kind |-> "DecoderReaderBuf", obj |-> r, data |-> Decompress_new]

DecoderReaderBuf_reset(e, r) ==
    [self |-> [e EXCEPT !.data = Decompress_new, !.obj = r], ret |-> e.obj]

\* Variant: reset_data also throws away what is left of the window.
DecoderReaderBuf_reset_data_rewind(e) ==
    [e EXCEPT !.data = Decompress_new, !.obj.pos = Len(e.obj.buf)]

\* Variant: reset_data leaves the engine as it is.
DecoderReaderBuf_reset_data_kept(e) == e

DecoderReaderBuf_reset_data(e) == [e EXCEPT !.data = Decompress_new]

DecoderReaderBuf_total_in(e) == e.data.total_in

DecoderReaderBuf_total_out(e) == e.data.total_out

\* Variant: the engine is run on the window whatever the size of the buffer.
DecoderReaderBuf_read_unguarded(e, n) ==
    Pumped(e, zio_read_filled(BufReader_fill_buf(e.obj), e.data, n))

\* Variant: the window is refilled whether or not the engine has ended.
DecoderReaderBuf_read_refilling(e, n) ==
    IF n = 0 THEN Pumped(e, zio_read(e.obj, e.data, n))
    ELSE Pumped(e, zio_read_filled(BufReader_fill_buf(e.obj), e.data, n))

\* Variant: an error of the pump is reported as a read of no bytes.
DecoderReaderBuf_read_swallow(e, n) ==
    [self |-> Pumped(e, zio_read(e.obj, e.data, n)).self,
     out |-> Pumped(e, zio_read(e.obj, e.data, n)).out,
     err |-> "none"]

DecoderReaderBuf_read(e, n) == Pumped(e, zio_read(e.obj, e.data, n))

DecoderReader_new_with_buf(r, cap) ==
    [kind |-> "DecoderReader", inner |-> DecoderReaderBuf_new(BufReader_with_buf(cap, r))]

DecoderReader_new(r) == DecoderReader_new_with_buf(r, WinCap)

\* Variant: the source is replaced under the window, which is kept.
DecoderReader_reset_keeping(e, r) ==
    [self |-> [e EXCEPT !.inner.data = Decompress_new, !.inner.obj.inner = r],
     ret |-> e.inner.obj.inner]

\* Variant: the source is replaced and the engine is kept.
DecoderReader_reset_stale(e, r) ==
    [self |-> [e EXCEPT !.inner.obj = BufReader_reset(@, r).self],
     ret |-> BufReader_reset(e.inner.obj, r).ret]

DecoderReader_reset(e, r) ==
    [self |-> [e EXCEPT !.inner.data = Decompress_new,
                        !.inner.obj = BufReader_reset(@, r).self],
     ret |-> BufReader_reset(e.inner.obj, r).ret]

\* Variant: the count of bytes pulled from the source.
DecoderReader_total_in_pulled(e) == e.inner.obj.inner.pos

DecoderReader_total_in(e) == DecoderReaderBuf_total_in(e.inner)

DecoderReader_total_out(e) == DecoderReaderBuf_total_out(e.inner)

DecoderReader_read(e, n) == Forwarded(e, DecoderReaderBuf_read(e.inner, n))

\* trait Read, by the type of the stream.
Read_read(r, n) ==
    IF r.kind = "Slice" THEN Slice_read(r, n)
    ELSE IF r.kind = "EncoderReader" THEN EncoderReader_read(r, n)
    ELSE DecoderReader_read(r, n)

\* ===================================================== the push world
\* One push adapter under test, driven as the tests of deflate.rs drive it:
\* write_all in chunks, reset, finish, or drop.
\*   kind  "E"  EncoderWriter<Vec>          (tests::roundtrip, drop_writes)
\*         "D"  DecoderWriter<Vec>          (tests::reset_decoder)
\*         "ED" EncoderWriter<DecoderWriter<Vec>>  (tests::roundtrip3)
\*         "D2" the DecoderWriter that finishing an "ED" adapter returned
\*   w     the adapter, phase "live" | "finished" | "dropped"
\*   inp   the input the caller writes to each logical stream, todo what is
\*         left of it to write, fed the input written so far
\*         to the current logical stream, clean: no call on it has failed
\*   rets  the sinks given back so far, each with the input of its stream
\*   last  the last call and its outcome
\*   resets, flushes  the reset calls and the flush calls made so far
VARIABLES kind, w, phase, inp, todo, fed, clean, rets, last, resets, flushes,
          rkind, rd, src, got, rphase, passes, rlast, rresets

pushvars == <<kind, w, phase, inp, todo, fed, clean, rets, last, resets, flushes>>

pullvars == <<rkind, rd, src, got, rphase, passes, rlast, rresets>>

vars == <<pushvars, pullvars>>

MaxRoom == 2       \* a failing sink fails after 0..MaxRoom bytes
MaxResets == 1     \* reset calls per behaviour

Push_new(k, sink) ==
    IF k = "E" THEN EncoderWriter_new(sink)
    ELSE IF k = "D" THEN DecoderWriter_new(sink)
    ELSE EncoderWriter_new(DecoderWriter_new(sink))

Push_finish(a) ==
    IF a.kind = "EncoderWriter" THEN EncoderWriter_finish(a) ELSE DecoderWriter_finish(a)

Push_reset(a, sink) ==
    IF a.kind = "EncoderWriter" THEN EncoderWriter_reset(a, sink)
    ELSE DecoderWriter_reset(a, sink)

\* Dropping an adapter drops the stream it owns as well.
RECURSIVE Push_drop(_)
Push_drop_inner(s) == IF s.kind = "Vec" THEN s ELSE Push_drop(s)

Push_drop(a) ==
    Push_drop_inner(IF a.kind = "EncoderWriter" THEN EncoderWriter_drop(a)
                    ELSE DecoderWriter_drop(a))

\* What a brand-new adapter gives for write_all(X) followed by finish, into a
\* sink that takes everything it is offered.
FreshPush_ret(wr, f) ==
    IF wr.err = "none" /\ f.err = "none" THEN [ok |-> TRUE, bytes |-> f.ret.bytes]
    ELSE [ok |-> FALSE, bytes |-> <<>>]

FreshPush_finish(wr) == FreshPush_ret(wr, Push_finish(wr.self))

FreshPush(k, X) == FreshPush_finish(Write_all(Push_new(k, Vec_new(0, BufCap, -1)), X))

Deflate(S) == FreshPush("E", S).bytes

Payloads == SeqsUpTo(Byte, MaxLen)

Inputs(k) == IF k = "D" THEN {Deflate(S) : S \in Payloads} ELSE Payloads

PullIdle ==
    /\ rkind = "none" /\ rd = <<>> /\ src = <<>> /\ got = <<>>
    /\ rphase = "idle" /\ passes = <<>> /\ rlast = <<>> /\ rresets = 0

InitPush ==
    /\ kind \in {"E", "D", "ED"}
    /\ \E per \in 1..MaxAccept, room \in -1..MaxRoom :
           w = Push_new(kind, Vec_new(1, per, room))
    /\ phase = "live"
    /\ inp \in Inputs(kind)
    /\ todo = inp
    /\ fed = <<>>
    /\ clean = TRUE
    /\ rets = <<>>
    /\ last = [op |-> "new", err |-> "none", tin |-> 0, tout |-> 0, sink |-> 1, new |-> 0]
    /\ resets = 0
    /\ flushes = 0
    /\ PullIdle

SinkOf(a) == IF a.inner.obj.kind = "Vec" THEN a.inner.obj ELSE a.inner.obj.inner.obj

\* A call on the adapter `a` (its state before the call) and its outcome.
Called(op, err, a, new) ==
    [op |-> op, err |-> err, tin |-> a.inner.data.total_in,
     tout |-> a.inner.data.total_out, sink |-> SinkOf(a).id, new |-> new]

Returned(how, sink) ==
    [how |-> how, kind |-> kind, sink |-> sink, fed |-> fed, clean |-> clean]

\* w.write_all(chunk)
PushWrite_do(chunk, r) ==
    /\ w' = r.self
    /\ todo' = Drop(todo, Len(chunk))
    /\ fed' = IF r.err = "none" THEN fed \o chunk ELSE fed
    /\ clean' = (clean /\ r.err = "none")
    /\ last' = Called("write", r.err, w, 0)

PushWrite ==
    /\ phase = "live" /\ kind # "D2"
    /\ \E n \in 0..Min(MaxChunk, Len(todo)) :
           PushWrite_do(Take(todo, n), Write_all(w, Take(todo, n)))
    /\ UNCHANGED <<kind, phase, inp, rets, resets, flushes, pullvars>>

\* w.finish(): the adapter is consumed; on an error it is dropped inside finish.
PushFinish_do(r) ==
    /\ last' = Called("finish", r.err, w, 0)
    /\ clean' = (clean /\ r.err = "none")
    /\ IF r.err # "none"
         THEN /\ phase' = "dropped"
              /\ w' = r.self
              /\ kind' = kind
              /\ rets' = Append(rets, Returned("failed", Push_drop(r.self)))
       ELSE IF kind = "ED"
         THEN /\ phase' = "live"
              /\ w' = r.ret
              /\ kind' = "D2"
              /\ rets' = rets
       ELSE /\ phase' = "finished"
            /\ w' = r.self
            /\ kind' = kind
            /\ rets' = Append(rets, Returned("finish", r.ret))

PushFinish ==
    /\ phase = "live"
    /\ PushFinish_do(Push_finish(w))
    /\ UNCHANGED <<inp, todo, fed, resets, flushes, pullvars>>

\* w.reset(new sink), then the caller goes on to write the same input again.
PushReset_do(new, r) ==
    /\ w' = r.self
    /\ last' = Called("reset", r.err, w, new.id)
    /\ IF r.err = "none"
         THEN /\ rets' = Append(rets, Returned("reset", r.ret))
              /\ fed' = <<>> /\ clean' = TRUE /\ todo' = inp
         ELSE /\ rets' = rets
              /\ fed' = fed /\ clean' = FALSE /\ todo' = todo

PushReset_with(new) == PushReset_do(new, Push_reset(w, new))

PushReset ==
    /\ phase = "live" /\ kind \in {"E", "D"} /\ resets < MaxResets
    /\ PushReset_with(Vec_new(SinkOf(w).id + 1, SinkOf(w).per, -1))
    /\ resets' = resets + 1
    /\ UNCHANGED <<kind, phase, inp, flushes, pullvars>>

\* The adapter goes out of scope without finish.
PushDrop ==
    /\ phase = "live"
    /\ phase' = "dropped"
    /\ rets' = Append(rets, Returned("drop", Push_drop(w)))
    /\ last' = Called("drop", "none", w, 0)
    /\ UNCHANGED <<kind, w, inp, todo, fed, clean, resets, flushes, pullvars>>

NextPush == PushWrite \/ PushFinish \/ PushReset \/ PushDrop

SpecPush == InitPush /\ [][NextPush]_vars

\* The same adapters with the flush calls as well: w.flush() and, on an
\* EncoderWriter, w.flush_finish().
MaxFlushes == 1    \* flush calls per behaviour

PushFlush_do(r) ==
    /\ w' = r.self
    /\ clean' = (clean /\ r.err = "none")
    /\ last' = Called("flush", r.err, w, 0)

PushFlush ==
    /\ phase = "live" /\ flushes < MaxFlushes
    /\ PushFlush_do(Write_flush(w))
    /\ flushes' = flushes + 1
    /\ UNCHANGED <<kind, phase, inp, todo, fed, rets, resets, pullvars>>

\* w.flush_finish(): the adapter is consumed and the sink given back.
PushFlushFinish_do(r) ==
    /\ last' = Called("flush_finish", r.err, w, 0)
    /\ clean' = (clean /\ r.err = "none")
    /\ w' = r.self
    /\ IF r.err # "none"
         THEN /\ phase' = "dropped"
              /\ rets' = Append(rets, Returned("failed", Push_drop(r.self)))
         ELSE /\ phase' = "finished"
              /\ rets' = Append(rets, Returned("flush_finish", r.ret))

PushFlushFinish ==
    /\ phase = "live" /\ kind = "E"
    /\ PushFlushFinish_do(EncoderWriter_flush_finish(w))
    /\ UNCHANGED <<kind, inp, todo, fed, resets, flushes, pullvars>>

NextFlush == NextPush \/ PushFlush \/ PushFlushFinish

SpecFlush == InitPush /\ [][NextFlush]_vars

\* ===================================================== the pull world
\* One pull adapter under test, read with caller buffers of 0..MaxRead bytes
\* and reset to a new source, as the tests of deflate.rs do.
\*   rkind  "ER"  EncoderReader<slice>                (tests::reset_reader)
\*          "DR"  DecoderReader<slice>, the slice a complete stream followed
\*                by trailing bytes                   (tests::total_in)
\*          "DER" DecoderReader<EncoderReader<slice>> (tests::roundtrip2)
\*   rd     the adapter, rphase "live" | "eof" (a read into a non-empty
\*          buffer has returned 0) | "err" (a read has failed)
\*   src    what the current source supplies: data, the payload it stands
\*          for, len: the length of the complete stream in data
\*   got    the bytes read since the adapter was created or reset
\*   passes the outputs of the passes read to end so far
\*   rlast  the last call and its outcome
\* Bytes that follow a complete stream: one that reads as a marker or header
\* byte, one that reads as a literal.
TrailByte == {0, 16}

Trails == SeqsUpTo(TrailByte, MaxTrail)

\* ------------------------------------------ single write calls (push world)
\* The push adapters driven by single write calls, which report how much of
\* the slice they took; the input of a DecoderWriter is a complete stream
\* followed by trailing bytes, so that writes arrive after the end of the
\* stream as well.
InitWrite ==
    /\ kind \in {"E", "D", "ED"}
    /\ \E per \in 1..MaxAccept, room \in -1..MaxRoom :
           w = Push_new(kind, Vec_new(1, per, room))
    /\ phase = "live"
    /\ inp \in IF kind = "D" THEN {Deflate(S) \o G : S \in Payloads, G \in Trails}
               ELSE Payloads
    /\ todo = inp
    /\ fed = <<>>
    /\ clean = TRUE
    /\ rets = <<>>
    /\ last = [op |-> "new", err |-> "none", tin |-> 0, tout |-> 0, sink |-> 1, new |-> 0]
    /\ resets = 0
    /\ flushes = 0
    /\ PullIdle

\* w.write(chunk): the call, the length of the slice, what it returned and
\* whether the engine had reported the end of the stream before the call.
WriteCalled(r, a, n) ==
    [op |-> "write", err |-> r.err, n |-> n, ret |-> r.ret,
     ended |-> Ops_ended(a.inner.data),
     tin |-> a.inner.data.total_in, tout |-> a.inner.data.total_out,
     held |-> Len(SinkOf(a).bytes)]

PushWriteOnce_do(chunk, r) ==
    /\ w' = r.self
    /\ todo' = IF r.err = "none" THEN Drop(todo, r.ret) ELSE todo
    /\ fed' = IF r.err = "none" THEN fed \o Take(chunk, r.ret) ELSE fed
    /\ clean' = (clean /\ r.err = "none")
    /\ last' = WriteCalled(r, w, Len(chunk))

PushWriteOnce ==
    /\ phase = "live"
    /\ \E n \in 0..Min(MaxChunk, Len(todo)) :
           PushWriteOnce_do(Take(todo, n), Write_write(w, Take(todo, n)))
    /\ UNCHANGED <<kind, phase, inp, rets, resets, flushes, pullvars>>

NextWrite == PushWriteOnce \/ PushFlush

SpecWrite == InitWrite /\ [][NextWrite]_vars

\* Partial-read patterns of a source: the same size every call, or short
\* and long reads in turn.
Plans == {<<a>> : a \in 1..MaxFill} \cup {<<1, MaxFill>>, <<MaxFill, 1>>}

Source(k, data, plan) ==
    IF k = "DER" THEN EncoderReader_new(Slice_new(data, plan)) ELSE Slice_new(data, plan)

Pull_new(k, s, cap) ==
    IF k = "ER" THEN EncoderReader_new(s) ELSE DecoderReader_new_with_buf(s, cap)

Pull_reset(a, s) ==
    IF a.kind = "EncoderReader" THEN EncoderReader_reset(a, s) ELSE DecoderReader_reset(a, s)

\* What a brand-new adapter over a source that supplies `data` gives when read to end.
FreshPull(k, data) ==
    Read_to_end(Pull_new(k, Source(k, data, <<MaxFill>>), WinCap), MaxRead)

PushIdle ==
    /\ kind = "none" /\ w = <<>> /\ phase = "idle" /\ inp = <<>> /\ todo = <<>>
    /\ fed = <<>>
    /\ clean = TRUE /\ rets = <<>> /\ last = <<>> /\ resets = 0 /\ flushes = 0

InitPullOf(kinds, trails) ==
    /\ rkind \in kinds
    /\ \E S \in Payloads, G \in trails, plan \in Plans, cap \in 1..MaxWin :
         /\ rkind = "ER" => cap = WinCap
         /\ src = [data |-> IF rkind = "DR" THEN Deflate(S) \o G ELSE S,
                   payload |-> S, len |-> Len(Deflate(S)), plan |-> plan]
         /\ rd = Pull_new(rkind, Source(rkind, src.data, plan), cap)
    /\ got = <<>>
    /\ rphase = "live"
    /\ passes = <<>>
    /\ rlast = [op |-> "new", n |-> 0, ret |-> 0, err |-> "none"]
    /\ rresets = 0
    /\ PushIdle

InitPull == InitPullOf({"ER", "DR", "DER"}, {<<>>})

\* A DecoderReader over a complete stream followed by trailing bytes.
InitTrail == InitPullOf({"DR"}, Trails)

\* r.read(&mut buf) with a buffer of n bytes
PullRead_do(n, x) ==
    /\ rd' = x.self
    /\ got' = got \o x.out
    /\ rphase' = IF x.err # "none" THEN "err"
                 ELSE IF n > 0 /\ x.out = <<>> THEN "eof"
                 ELSE rphase
    /\ passes' = IF rphase = "live" /\ x.err = "none" /\ n > 0 /\ x.out = <<>>
                   THEN Append(passes, got)
                 ELSE passes
    /\ rlast' = [op |-> "read", n |-> n, ret |-> Len(x.out), err |-> x.err]

PullRead ==
    /\ rphase \in {"live", "eof"}
    /\ \E n \in 0..MaxRead : PullRead_do(n, Read_read(rd, n))
    /\ UNCHANGED <<rkind, src, rresets, pushvars>>

\* r.reset(new source), the new source supplying the same data again
PullReset_do(x) ==
    /\ rd' = x.self
    /\ rlast' = [op |-> "reset", n |-> 0, ret |-> 0, err |-> "none", old |-> x.ret]

PullReset ==
    /\ rphase \in {"live", "eof"} /\ rresets < MaxResets
    /\ PullReset_do(Pull_reset(rd, Source(rkind, src.data, src.plan)))
    /\ got' = <<>>
    /\ rphase' = "live"
    /\ rresets' = rresets + 1
    /\ UNCHANGED <<rkind, src, passes, pushvars>>

NextPull == PullRead \/ PullReset

SpecPull == InitPull /\ [][NextPull]_vars

\* The caller keeps reading: a read that is possible is eventually made.
\* This is weak fairness of PullRead with its enabling condition written out:
\* a read with some n in 1..MaxRead always changes got, rphase or rlast while
\* the reader is live or at end of data, so PullRead is enabled exactly there.
ReadFair == []<>(rphase \notin {"live", "eof"}) \/ []<><<PullRead>>_vars

SpecPullLive == SpecPull /\ ReadFair

NextTrail == PullRead

SpecTrail == InitTrail /\ [][NextTrail]_vars

\* A DecoderReader over a source whose data is a stream cut short or with one
\* byte replaced by a byte that is valid nowhere, or whose read fails with an
\* I/O error at some offset.
MaxFailAt == 2     \* a failing source fails at an offset 0..MaxFailAt

BadByte == 1

Truncated(S) == {Take(Deflate(S), k) : k \in 0..(Len(Deflate(S)) - 1)}

Malformed(S) == {[Deflate(S) EXCEPT ![i] = BadByte] : i \in 1..Len(Deflate(S))}

Damaged(S, bad) ==
    IF bad = "truncated" THEN Truncated(S)
    ELSE IF bad = "malformed" THEN Malformed(S)
    ELSE {Deflate(S)}

InitErr ==
    /\ rkind = "DR"
    /\ \E S \in Payloads, bad \in {"none", "truncated", "malformed"},
          plan \in Plans, cap \in 1..MaxWin, at \in -1..MaxFailAt :
         \E data \in Damaged(S, bad) :
            /\ src = [data |-> data, payload |-> S, len |-> Len(Deflate(S)), plan |-> plan,
                      bad |-> bad, fail |-> at]
            /\ rd = DecoderReader_new_with_buf(Slice_failing(data, plan, at), cap)
    /\ got = <<>>
    /\ rphase = "live"
    /\ passes = <<>>
    /\ rlast = [op |-> "new", n |-> 0, ret |-> 0, err |-> "none"]
    /\ rresets = 0
    /\ PushIdle

NextErr == PullRead

SpecErr == InitErr /\ [][NextErr]_vars

\* The same DecoderReader, read and reset.
SpecTrailReset == InitTrail /\ [][NextPull]_vars

\* r.reset_data() on the DecoderReaderBuf a DecoderReader wraps: the engine
\* starts anew, the source and its window stay.
PullResetData ==
    /\ rphase \in {"live", "eof"} /\ rkind = "DR" /\ rresets < MaxResets
    /\ rd' = [rd EXCEPT !.inner = DecoderReaderBuf_reset_data(@)]
    /\ rlast' = [op |-> "reset_data", n |-> 0, ret |-> 0, err |-> "none"]
    /\ got' = <<>>
    /\ rphase' = "live"
    /\ rresets' = rresets + 1
    /\ UNCHANGED <<rkind, src, passes, pushvars>>

\* Every adapter under every operation: write, flush, finish, flush_finish,
\* reset and drop on the push side; read, reset and reset_data on the pull side.
InitAll == InitPush \/ InitPull \/ InitTrail

NextAll == NextFlush \/ NextPull \/ PullResetData

SpecAll == InitAll /\ [][NextAll]_vars

\* r.reset(new source) in the middle of a stream, the new source supplying
\* other data; `lost` is the part of the window the engine had not consumed.
PullResetTo_do(x, lost) ==
    /\ rd' = x.self
    /\ rlast' = [op |-> "reset", n |-> 0, ret |-> 0, err |-> "none",
                 old |-> x.ret, lost |-> lost]

PullResetTo ==
    /\ rphase \in {"live", "eof"} /\ rresets < MaxResets
    /\ \E S \in Payloads :
         /\ src' = [data |-> IF rkind = "DR" THEN Deflate(S) ELSE S,
                    payload |-> S, len |-> Len(Deflate(S)), plan |-> src.plan]
         /\ PullResetTo_do(Pull_reset(rd, Source(rkind, src'.data, src.plan)),
                           BufReader_window(rd.inner.obj))
    /\ got' = <<>>
    /\ rphase' = "live"
    /\ rresets' = rresets + 1
    /\ UNCHANGED <<rkind, passes, pushvars>>

NextSwap == PullRead \/ PullResetTo

SpecSwap == InitPull /\ [][NextSwap]_vars

\* A DecoderReader over one source that holds two complete streams back to
\* back; the caller reads the first to its end, calls reset_data and reads on.
Seconds == SeqsUpTo(Byte, MaxTrail)

InitTwo ==
    /\ rkind = "DR"
    /\ \E S \in Payloads, T \in Seconds, plan \in Plans, cap \in 1..MaxWin :
         /\ src = [data |-> Deflate(S) \o Deflate(T), payload |-> S,
                   len |-> Len(Deflate(S)), plan |-> plan, second |-> T]
         /\ rd = Pull_new(rkind, Source(rkind, src.data, plan), cap)
    /\ got = <<>>
    /\ rphase = "live"
    /\ passes = <<>>
    /\ rlast = [op |-> "new", n |-> 0, ret |-> 0, err |-> "none"]
    /\ rresets = 0
    /\ PushIdle

PullRestart == rphase = "eof" /\ PullResetData

NextTwo == PullRead \/ PullRestart

SpecTwo == InitTwo /\ [][NextTwo]_vars

\* ------------------------------------------- wrapped streams of both kinds
\* A wrapped stream that is Read + Write: a sink that can also be read (it
\* hands out `inc`), a source that can also be written (it collects `wrote`).
MaxPass == 2       \* bytes a wrapped stream hands out to, or takes from, raw calls

Vec_duplex(id, per, room, inc) ==
    [kind |-> "Vec", id |-> id, bytes |-> <<>>, per |-> per, room |-> room,
     flushed |-> 0, inc |-> inc, rpos |-> 0]

Vec_read(s, n) ==
    [self |-> [s EXCEPT !.rpos = Min(@ + n, Len(s.inc))],
     out |-> SubSeq(s.inc, s.rpos + 1, Min(s.rpos + n, Len(s.inc))),
     err |-> "none"]

Slice_duplex(data, plan) ==
    [kind |-> "Slice", data |-> data, pos |-> 0, plan |-> plan, pi |-> 1,
     fail |-> -1, errs |-> 0, wrote |-> <<>>, synced |-> 0]

\* The stream takes one byte per call and fails once it holds MaxPass bytes.
Slice_write(s, buf) ==
    IF buf = <<>> THEN [self |-> s, ret |-> 0, err |-> "none"]
    ELSE IF Len(s.wrote) >= MaxPass THEN [self |-> s, ret |-> 0, err |-> "io"]
    ELSE [self |-> [s EXCEPT !.wrote = Append(@, buf[1])], ret |-> 1, err |-> "none"]

Slice_flush(s) == [self |-> [s EXCEPT !.synced = Len(s.wrote)], err |-> "none"]

\* A BufRead + Write stream: writes go past the read window.
BufReader_write_to(b, x) == [self |-> [b EXCEPT !.inner = x.self], ret |-> x.ret, err |-> x.err]

BufReader_flush_to(b, x) == [self |-> [b EXCEPT !.inner = x.self], err |-> x.err]

RECURSIVE Stream_read(_, _)

RECURSIVE Stream_write(_, _)

RECURSIVE Stream_flush(_)

BufReader_write(b, buf) == BufReader_write_to(b, Stream_write(b.inner, buf))

BufReader_flush(b) == BufReader_flush_to(b, Stream_flush(b.inner))

\* ---------------------------------------------------------- pass-through
\* self.inner.get_mut().unwrap(): the stream a zio::Writer writes into.
Writer_get_mut_read(e, x) ==
    [self |-> [e EXCEPT !.inner.obj = x.self], out |-> x.out, err |-> x.err]

\* Variant: the raw read first flushes the codec into the stream.
EncoderWriter_read_flushing(e, n) ==
    Writer_get_mut_read([e EXCEPT !.inner = Writer_flush(@).self],
                        Stream_read(Writer_flush(e.inner).self.obj, n))

EncoderWriter_read(e, n) == Writer_get_mut_read(e, Stream_read(e.inner.obj, n))

DecoderWriter_read(e, n) == Writer_get_mut_read(e, Stream_read(e.inner.obj, n))

\* self.get_mut() of a *ReaderBuf is its obj.
ReaderBuf_wrote(e, x) == [self |-> [e EXCEPT !.obj = x.self], ret |-> x.ret, err |-> x.err]

ReaderBuf_flushed(e, x) == [self |-> [e EXCEPT !.obj = x.self], err |-> x.err]

EncoderReaderBuf_write(e, buf) == ReaderBuf_wrote(e, BufReader_write(e.obj, buf))

EncoderReaderBuf_flush(e) == ReaderBuf_flushed(e, BufReader_flush(e.obj))

DecoderReaderBuf_write(e, buf) == ReaderBuf_wrote(e, BufReader_write(e.obj, buf))

DecoderReaderBuf_flush(e) == ReaderBuf_flushed(e, BufReader_flush(e.obj))

\* self.get_mut() of a *Reader is self.inner.get_mut().get_mut(): the source
\* under the buffered reader.
Reader_wrote(e, x) ==
    [self |-> [e EXCEPT !.inner.obj.inner = x.self], ret |-> x.ret, err |-> x.err]

Reader_flushed(e, x) == [self |-> [e EXCEPT !.inner.obj.inner = x.self], err |-> x.err]

EncoderReader_write(e, buf) == Reader_wrote(e, Stream_write(e.inner.obj.inner, buf))

EncoderReader_flush(e) == Reader_flushed(e, Stream_flush(e.inner.obj.inner))

DecoderReader_write(e, buf) == Reader_wrote(e, Stream_write(e.inner.obj.inner, buf))

DecoderReader_flush(e) == Reader_flushed(e, Stream_flush(e.inner.obj.inner))

\* Read::read, Write::write and Write::flush of the streams that are both.
Stream_read(s, n) ==
    IF s.kind = "Vec" THEN Vec_read(s, n)
    ELSE IF s.kind = "EncoderWriter" THEN EncoderWriter_read(s, n)
    ELSE DecoderWriter_read(s, n)

Stream_write(s, buf) ==
    IF s.kind = "Slice" THEN Slice_write(s, buf)
    ELSE IF s.kind = "EncoderReader" THEN EncoderReader_write(s, buf)
    ELSE DecoderReader_write(s, buf)

Stream_flush(s) ==
    IF s.kind = "Slice" THEN Slice_flush(s)
    ELSE IF s.kind = "EncoderReader" THEN EncoderReader_flush(s)
    ELSE DecoderReader_flush(s)

\* The adapters over wrapped streams of both kinds, with the raw calls next
\* to the ordinary ones.
Incoming == {[i \in 1..MaxPass |-> i % 2]}

RawWrites == {<<>>, <<1, 0>>}

InitPassPush ==
    /\ kind \in {"E", "D", "ED"}
    /\ \E per \in 1..MaxAccept, room \in {-1, 1}, inc \in Incoming :
           w = Push_new(kind, Vec_duplex(1, per, room, inc))
    /\ phase = "live"
    /\ inp \in Inputs(kind)
    /\ todo = inp
    /\ fed = <<>>
    /\ clean = TRUE
    /\ rets = <<>>
    /\ last = [op |-> "new", err |-> "none", tin |-> 0, tout |-> 0, sink |-> 1, new |-> 0]
    /\ resets = 0
    /\ flushes = 0
    /\ PullIdle

DuplexSource(k, data, plan) ==
    IF k = "DER" THEN EncoderReader_new(Slice_duplex(data, plan))
    ELSE Slice_duplex(data, plan)

InitPassPull ==
    /\ rkind \in {"ER", "DR", "DER"}
    /\ \E S \in Payloads, plan \in Plans :
         /\ src = [data |-> IF rkind = "DR" THEN Deflate(S) ELSE S,
                   payload |-> S, len |-> Len(Deflate(S)), plan |-> plan]
         /\ rd = Pull_new(rkind, DuplexSource(rkind, src.data, plan), WinCap)
    /\ got = <<>>
    /\ rphase = "live"
    /\ passes = <<>>
    /\ rlast = [op |-> "new", n |-> 0, ret |-> 0, err |-> "none"]
    /\ rresets = 0
    /\ PushIdle

InitPass == InitPassPush \/ InitPassPull

\* w.read(buf) on a push adapter
PushRead_do(n, x) ==
    /\ w' = x.self
    /\ last' = [op |-> "read", err |-> x.err, tin |-> w.inner.data.total_in,
                tout |-> w.inner.data.total_out, sink |-> SinkOf(w).id, new |-> 0,
                n |-> n, out |-> x.out]

PushRead ==
    /\ phase = "live"
    /\ \E n \in 0..MaxRead : PushRead_do(n, Stream_read(w, n))
    /\ UNCHANGED <<kind, phase, inp, todo, fed, clean, rets, resets, flushes, pullvars>>

\* r.write(buf) and r.flush() on a pull adapter, or on the *ReaderBuf in it
ReaderBuf_lift(a, x) == [x EXCEPT !.self = [a EXCEPT !.inner = x.self]]

Pull_write(a, via, buf) ==
    IF via = "reader" THEN Stream_write(a, buf)
    ELSE IF a.kind = "EncoderReader"
      THEN ReaderBuf_lift(a, EncoderReaderBuf_write(a.inner, buf))
    ELSE ReaderBuf_lift(a, DecoderReaderBuf_write(a.inner, buf))

Pull_flush(a, via) ==
    IF via = "reader" THEN Stream_flush(a)
    ELSE IF a.kind = "EncoderReader"
      THEN ReaderBuf_lift(a, EncoderReaderBuf_flush(a.inner))
    ELSE ReaderBuf_lift(a, DecoderReaderBuf_flush(a.inner))

PullWrite_do(via, buf, x) ==
    /\ rd' = x.self
    /\ rlast' = [op |-> "write", n |-> Len(buf), ret |-> x.ret, err |-> x.err,
                 via |-> via, buf |-> buf]

PullWrite ==
    /\ rphase \in {"live", "eof"}
    /\ \E via \in {"reader", "buf"}, buf \in RawWrites :
           PullWrite_do(via, buf, Pull_write(rd, via, buf))
    /\ UNCHANGED <<rkind, src, got, rphase, passes, rresets, pushvars>>

PullFlush_do(via, x) ==
    /\ rd' = x.self
    /\ rlast' = [op |-> "flush", n |-> 0, ret |-> 0, err |-> x.err, via |-> via]

PullFlush ==
    /\ rphase \in {"live", "eof"}
    /\ \E via \in {"reader", "buf"} : PullFlush_do(via, Pull_flush(rd, via))
    /\ UNCHANGED <<rkind, src, got, rphase, passes, rresets, pushvars>>

NextPass == PushWrite \/ PushFinish \/ PushRead \/ PullRead \/ PullWrite \/ PullFlush

SpecPass == InitPass /\ [][NextPass]_vars

\* ------------------------------------------------ claims of the push world
\* Reading `bytes` to end through a DecoderReader gives exactly S, for every
\* window capacity and every size of the caller's buffers.
Inflated(x, S) == x.err = "none" /\ x.out = S

Inflates(bytes, S) ==
    \A cap \in 1..MaxWin, n \in 1..MaxRead :
        Inflated(Read_to_end(DecoderReader_new_with_buf(Slice_new(bytes, <<MaxFill>>), cap), n), S)

\* C1: push-then-pull round trip.  Whatever S was written in whatever chunks
\* (empty ones included) to an EncoderWriter, the sink that finish returns,
\* read to end through a DecoderReader, gives exactly S.
C1_PushPullRoundTrip ==
    \A i \in 1..Len(rets) :
        (rets[i].kind = "E" /\ rets[i].how = "finish" /\ rets[i].clean)
            => Inflates(rets[i].sink.bytes, rets[i].fed)

C1_Witness ==
    /\ phase = "finished" /\ kind = "E" /\ resets = 0
    /\ Len(fed) >= 3 /\ clean
    /\ rets[Len(rets)].sink.per = 1

\* C3: chained push round trip.  Writing S to an EncoderWriter over a
\* DecoderWriter over a destination, finishing the EncoderWriter and then the
\* DecoderWriter it returns, leaves exactly S in the destination; over a
\* destination that accepts every write no call of the chain fails.
C3_ChainedPushRoundTrip ==
    /\ (kind \in {"ED", "D2"} /\ SinkOf(w).room < 0) => clean
    /\ \A i \in 1..Len(rets) :
           (rets[i].kind = "D2" /\ rets[i].how = "finish" /\ rets[i].clean)
               => rets[i].sink.bytes = rets[i].fed

C3_Witness ==
    /\ phase = "finished" /\ kind = "D2" /\ Len(fed) >= 3 /\ clean

\* C4: finish on teardown.  An EncoderWriter dropped after successful writes,
\* finish never called, over a sink that accepts every write, leaves in the
\* sink a closed stream that a DecoderReader decodes to the bytes written.
C4_DropFinishes ==
    \A i \in 1..Len(rets) :
        (rets[i].kind = "E" /\ rets[i].how = "drop" /\ rets[i].clean
           /\ rets[i].sink.room < 0)
            => Inflates(rets[i].sink.bytes, rets[i].fed)

C4_Witness ==
    /\ phase = "dropped" /\ kind = "E" /\ last.op = "drop" /\ clean
    /\ Len(fed) >= 3 /\ rets[Len(rets)].sink.room < 0

\* C6: push reset equivalence.  The sink that reset returns and the sink that
\* finish returns each hold, byte for byte, what a brand-new adapter of the
\* same type produces for write_all of the same input followed by finish.
C6_PushResetEquivalence ==
    \A i \in 1..Len(rets) :
        (rets[i].kind \in {"E", "D"} /\ rets[i].how \in {"reset", "finish"} /\ rets[i].clean)
            => /\ FreshPush(rets[i].kind, rets[i].fed).ok
               /\ rets[i].sink.bytes = FreshPush(rets[i].kind, rets[i].fed).bytes

C6_Witness ==
    /\ Len(rets) = 2 /\ kind = "E"
    /\ rets[1].how = "reset" /\ rets[2].how = "finish"
    /\ rets[1].clean /\ rets[2].clean
    /\ rets[1].fed = rets[2].fed /\ Len(rets[1].fed) >= 3
    /\ rets[1].sink.id # rets[2].sink.id

\* C9: partial-write fairness.  With a sink that takes at most N >= 1 bytes
\* per write call, after write_all calls and finish the sink holds the complete
\* output, and the number of bytes it received is the engine's total_out.
C9_Complete(e) ==
    IF e.kind = "D2" THEN e.sink.bytes = e.fed
    ELSE e.sink.bytes = FreshPush(e.kind, e.fed).bytes

C9_PartialWriteFairness ==
    (phase = "finished" /\ clean)
        => /\ Len(rets[Len(rets)].sink.bytes) = w.inner.data.total_out
           /\ C9_Complete(rets[Len(rets)])

C9_Witness ==
    /\ phase = "finished" /\ clean /\ kind = "E"
    /\ rets[Len(rets)].sink.per = 1
    /\ w.inner.data.total_out > BufCap + 2

\* C10: reset does not swap on finish failure.  When the finish inside reset
\* fails, reset returns the error, the old sink stays installed, the new sink
\* is not installed, and the counters of the CodecState are not set back.
C10_ResetKeepsSinkOnError ==
    (last.op = "reset" /\ last.err # "none")
        => /\ SinkOf(w).id = last.sink
           /\ SinkOf(w).id # last.new
           /\ w.inner.data.total_in = last.tin
           /\ w.inner.data.total_out >= last.tout

C10_Witness ==
    /\ last.op = "reset" /\ last.err = "io"
    /\ last.tin >= 2 /\ w.inner.data.total_in = last.tin
    /\ SinkOf(w).id = 1

\* ------------------------------------------------ claims of the pull world
\* C2: pull-chain round trip.  A DecoderReader over an EncoderReader over a
\* source that supplies S, read until a read returns 0, gives exactly S, for
\* every size of the caller's buffers and every pattern of partial source reads.
C2_PullChainRoundTrip ==
    rkind = "DER" => /\ rphase # "err"
                     /\ rphase = "eof" => got = src.payload

C2_Witness ==
    /\ rkind = "DER" /\ rphase = "eof" /\ rresets = 0
    /\ Len(got) >= 3 /\ src.plan = <<1, 2>>

\* C5: trailing-data tolerance.  A DecoderReader over a complete stream of
\* length L followed by arbitrary bytes, read to end, gives exactly the payload
\* of the stream, and total_in() is then L, however many trailing bytes were
\* pulled into the window.
C5_TrailingDataTolerance ==
    rkind = "DR" => /\ rphase # "err"
                    /\ rphase = "eof" => /\ got = src.payload
                                         /\ DecoderReader_total_in(rd) = src.len

C5_Witness ==
    /\ rkind = "DR" /\ rphase = "eof" /\ rresets = 0
    /\ Len(src.data) >= src.len + 2
    /\ rd.inner.obj.inner.pos > src.len
    /\ Len(got) >= 3

\* C7: pull reset equivalence.  Every pass read to end, before or after a
\* reset to a source that supplies the same data, gives byte for byte what a
\* brand-new adapter over that data gives; the end-of-stream of the first pass
\* does not carry over the reset.
C7_PullResetEquivalence ==
    /\ rphase # "err"
    /\ \A i \in 1..Len(passes) : passes[i] = FreshPull(rkind, src.data).out

C7_Witness ==
    /\ Len(passes) = 2 /\ rresets = 1 /\ rkind = "DR" /\ rphase = "eof"
    /\ Len(passes[1]) >= 3 /\ passes[2] = passes[1]

\* C8: a zero-length read is a no-op.  In every state of a pull adapter a read
\* into a zero-length buffer returns 0, leaves the engine (total_in, total_out
\* and all) as it was, does not end the stream, and a following read into a
\* non-empty buffer returns what it would have returned without it.
C8_ZeroRead ==
    (rlast'.op = "read" /\ rlast'.n = 0)
        => /\ rlast'.ret = 0 /\ rlast'.err = "none"
           /\ rd'.inner.data = rd.inner.data
           /\ rphase' = rphase
           /\ \A m \in 1..MaxRead :
                  /\ Read_read(rd', m).out = Read_read(rd, m).out
                  /\ Read_read(rd', m).err = Read_read(rd, m).err

C8_ZeroLengthReadNoOp == [][C8_ZeroRead]_vars

C8_Witness ==
    /\ rlast.op = "read" /\ rlast.n = 0 /\ rkind = "DR" /\ rphase = "live"
    /\ DecoderReader_total_in(rd) > 0 /\ Len(got) = 1
    /\ Read_read(rd, 1).out # <<>>

\* ------------------------------------- claims of the push world with flush
\* A closed stream: a decompressor fed the bytes takes them all and reports
\* the end of the stream.
Closed(bytes) ==
    /\ Decompress_run(Decompress_new, bytes, Len(bytes), "Finish").status = "StreamEnd"
    /\ Decompress_run(Decompress_new, bytes, Len(bytes), "Finish").data.total_in = Len(bytes)

\* The sink most recently given back to the caller.
GivenBack == rets[Len(rets)].sink

\* C11 (as stated): every operation that consumes a push adapter and returns
\* the sink (finish and flush_finish) returns it with the engine at its
\* end-of-stream, all output forwarded, and a closed stream in the sink.
C11_EveryConsumerCloses ==
    (last.op \in {"finish", "flush_finish"} /\ last.err = "none" /\ phase = "finished")
        => /\ Ops_finished(w.inner.data)
           /\ w.inner.buf = <<>>
           /\ kind = "E" => Closed(GivenBack.bytes)

\* C11 (amended): finish returns the sink with the engine at its
\* end-of-stream, all output forwarded and, for an EncoderWriter, a closed
\* stream in the sink; flush_finish returns the sink after a sync flush only:
\* all output forwarded, the engine not at its end-of-stream, the stream in
\* the sink not closed, and closed by appending the end-of-stream marker.
C11_FinishClosesFlushFinishDoesNot ==
    /\ (last.op = "finish" /\ last.err = "none")
           => /\ Ops_finished(w.inner.data)
              /\ w.inner.buf = <<>>
              /\ kind = "E" => Closed(GivenBack.bytes)
    /\ (last.op = "flush_finish" /\ last.err = "none")
           => /\ ~Ops_ended(w.inner.data)
              /\ w.inner.buf = <<>>
              /\ ~Closed(GivenBack.bytes)
              /\ Closed(GivenBack.bytes \o EndMark)

C11_Witness ==
    /\ last.op = "flush_finish" /\ last.err = "none" /\ phase = "finished"
    /\ Len(fed) >= 2 /\ Len(GivenBack.bytes) >= 4

\* What a decompressor makes of the bytes, as far as they go.
Decoded(bytes) == Decompress_feed(Decompress_new, bytes, <<>>, Len(bytes)).out

\* The state of the sink and the engine that a successful flush leaves.
FlushedThrough(sink, data) ==
    /\ Decoded(sink.bytes) = fed
    /\ Inflates(sink.bytes \o EndMark, fed)
    /\ sink.flushed = Len(sink.bytes)
    /\ ~Ops_ended(data)

\* C12: flush without closing.  After a successful flush or flush_finish on
\* an EncoderWriter the sink holds output from which every byte written before
\* can be decoded, the sink's own flush has been called and the stream is not
\* ended; writes after the flush are accepted, and a later finish gives a
\* stream that decodes to all bytes written before and after the flush.
C12_FlushWithoutClosing ==
    /\ (kind = "E" /\ last.op = "flush" /\ last.err = "none" /\ clean)
           => FlushedThrough(SinkOf(w), w.inner.data)
    /\ (last.op = "flush_finish" /\ last.err = "none" /\ clean)
           => FlushedThrough(GivenBack, w.inner.data)
    /\ (kind = "ED" /\ last.op = "flush" /\ last.err = "none" /\ clean)
           => /\ SinkOf(w).bytes = fed
              /\ SinkOf(w).flushed = Len(fed)
              /\ ~Ops_ended(w.inner.data)
    /\ (kind = "E" /\ flushes > 0 /\ SinkOf(w).room < 0) => clean
    /\ \A i \in 1..Len(rets) :
           (rets[i].kind = "E" /\ rets[i].how = "finish" /\ rets[i].clean /\ flushes > 0)
               => Inflates(rets[i].sink.bytes, rets[i].fed)

C12_Witness ==
    /\ phase = "finished" /\ kind = "E" /\ last.op = "finish" /\ clean
    /\ flushes > 0 /\ GivenBack.flushed > 0
    /\ Len(Decoded(Take(GivenBack.bytes, GivenBack.flushed))) >= 1
    /\ Len(Decoded(Take(GivenBack.bytes, GivenBack.flushed))) < Len(fed)

C14_Step ==
    /\ (Ops_ended(rd.inner.data) /\ rlast'.op = "read")
           => /\ rlast'.ret = 0 /\ rlast'.err = "none"
              /\ rd'.inner.data = rd.inner.data
              /\ rd'.inner.obj = rd.inner.obj
              /\ DecoderReader_total_in(rd') = src.len
    /\ rlast'.op = "reset"
           => /\ ~Ops_ended(rd'.inner.data)
              /\ DecoderReader_total_in(rd') = 0

C14_StickyEndOfStream == [][C14_Step]_vars

C14_Witness ==
    /\ rkind = "DR" /\ rphase = "eof" /\ Ops_ended(rd.inner.data)
    /\ rlast.op = "read" /\ rlast.n > 0 /\ rlast.ret = 0
    /\ rd.inner.obj.pos = Len(rd.inner.obj.buf)
    /\ rd.inner.obj.inner.pos < Len(src.data)
    /\ Len(got) >= 2

\* ------------------------------------------- claims about errors on pull decode
\* C15: error taxonomy on pull decode.  A DecoderReader over malformed or
\* truncated data never reports a clean end of stream (a read returning 0):
\* reading ends in an error, a data-format error unless the source itself
\* failed; a data-format error is only reported for damaged data, an I/O
\* error only for a failed read of the source, and a failed read of the
\* source is returned as that I/O error by the read that met it.
C15_ErrorTaxonomy ==
    /\ src.bad # "none" => rphase # "eof"
    /\ rlast.err \in {"none", "data", "io"}
    /\ rlast.err = "data" => (src.bad # "none" /\ rd.inner.obj.inner.errs = 0)
    /\ rlast.err = "io" <=> rd.inner.obj.inner.errs > 0
    /\ rphase = "err" <=> rlast.err # "none"
    /\ rphase = "eof" => got = src.payload

C15_Witness ==
    /\ rphase = "err" /\ rlast.err = "data" /\ src.bad = "truncated"
    /\ Len(src.data) >= 4 /\ Len(got) >= 1
    /\ rd.inner.obj.inner.pos = Len(src.data)

\* ------------------------------------------------ claims about finishing twice
\* C16: finish is idempotent-safe.  Once finish has completed on a push
\* adapter, running the finish step again on the same CodecState, by a call
\* or at teardown, succeeds and leaves the sink (its contents and all) and the
\* engine (total_out with it) as they were.
C16_FinishIdempotent ==
    (phase = "finished" /\ last.op = "finish" /\ last.err = "none")
        => /\ Push_finish(w).err = "none"
           /\ Push_finish(w).ret = GivenBack
           /\ Push_finish(w).self.inner.data = w.inner.data
           /\ Push_finish(w).self.inner.buf = <<>>
           /\ Push_drop(w) = GivenBack

C16_Witness ==
    /\ phase = "finished" /\ last.op = "finish" /\ last.err = "none"
    /\ kind = "E" /\ Ops_finished(w.inner.data)
    /\ w.inner.data.total_out >= 4 /\ GivenBack.per = 1
    /\ Push_drop(w).bytes = GivenBack.bytes

\* ------------------------------------------- claims about what the sink gets
IsPrefix(a, b) == Len(a) <= Len(b) /\ SubSeq(b, 1, Len(a)) = a

\* The pump `p` over a Vec-like sink: what the sink holds followed by the
\* Pending Output Buffer is what the engine has produced, byte for byte.
ExactlyOnce(p) ==
    /\ IsPrefix(p.obj.bytes, p.made)
    /\ p.obj.bytes \o p.buf = p.made
    /\ ~p.dirty

\* C17: the sink receives the engine output exactly once and in order.  In
\* every state of a push adapter, under partial sink writes, the bytes the
\* sink has received are a prefix of the bytes the engine has produced, the
\* rest being in the Pending Output Buffer, and no engine call has written
\* into a Pending Output Buffer that was not empty.
C17_SinkGetsOutputOnceInOrder ==
    phase # "idle" =>
        IF w.inner.obj.kind = "Vec"
          THEN /\ ExactlyOnce(w.inner)
               /\ resets = 0 => Len(w.inner.made) = w.inner.data.total_out
        ELSE /\ ExactlyOnce(w.inner.obj.inner)
             /\ ~w.inner.dirty
             /\ Len(w.inner.made) = w.inner.data.total_out
             /\ w.inner.obj.inner.data.total_in <= Len(w.inner.made)
             /\ clean => w.inner.obj.inner.data.total_in + Len(w.inner.buf)
                             = Len(w.inner.made)

C17_Witness ==
    /\ kind = "E" /\ phase = "live" /\ last.err = "io"
    /\ w.inner.buf # <<>> /\ Len(w.inner.obj.bytes) >= 2
    /\ Len(w.inner.made) > Len(w.inner.obj.bytes)
    /\ w.inner.obj.per = 1

\* ------------------------------------------------- claims about reads of 0
\* A read into a non-empty buffer has just returned 0.
ZeroRead == rlast.op = "read" /\ rlast.n > 0 /\ rlast.ret = 0 /\ rlast.err = "none"

C18_OnlyAtTheEnd ==
    ZeroRead => /\ Ops_finished(rd.inner.data)
                /\ rkind = "ER" => rd.inner.obj.inner.pos = Len(src.data)
                /\ got = FreshPull(rkind, src.data).out

\* C18: no spurious zero read.  A read on a pull adapter into a non-empty
\* buffer returns 0 only when the engine has reported the end of the stream
\* (for a compressor: the source is exhausted and all output has been handed
\* out), everything having been delivered before; and with a finite source
\* a caller that keeps reading eventually gets the 0.
C18_NoSpuriousZeroRead == [](C18_OnlyAtTheEnd) /\ <>[](rphase = "eof")

C18_Witness ==
    /\ rkind = "ER" /\ src.plan = <<1>> /\ rresets = 0
    /\ ZeroRead /\ rphase = "eof" /\ Len(got) >= 4
    /\ rd.inner.obj.inner.pos >= 2

\* ------------------------------------------------- claims about the counters
\* The engine counters of the adapter (and of the DecoderWriter an
\* EncoderWriter writes into), in a fixed order.
PushCounters(a) ==
    <<a.inner.data.total_in, a.inner.data.total_out>>
    \o (IF a.inner.obj.kind = "Vec" THEN <<>>
        ELSE <<a.inner.obj.inner.data.total_in, a.inner.obj.inner.data.total_out>>)

PullCounters(a) == <<a.inner.data.total_in, a.inner.data.total_out>>

\* Bytes the adapter has taken in the current logical stream: what the caller
\* has written to it, or what it has pulled from its source.
PushTaken == Len(inp) - Len(todo)

PullTaken(a) ==
    IF a.inner.obj.inner.kind = "Slice" THEN a.inner.obj.inner.pos
    ELSE a.inner.obj.inner.inner.data.total_out

NoLess(xs, ys) == \A i \in 1..Len(xs) : xs[i] <= ys[i]

AllZero(xs) == \A i \in 1..Len(xs) : xs[i] = 0

C19_PushStep ==
    (phase = "live" /\ pushvars' # pushvars) =>
        /\ (last'.op \in {"write", "flush", "finish", "flush_finish", "drop"}
              /\ kind' = kind)
             => NoLess(PushCounters(w), PushCounters(w'))
        /\ (last'.op = "reset" /\ last'.err = "none") => AllZero(PushCounters(w'))
        /\ kind' \in {"E", "D", "ED"} => w'.inner.data.total_in <= PushTaken'

C19_PullStep ==
    (rphase \in {"live", "eof"} /\ pullvars' # pullvars) =>
        /\ rlast'.op = "read" => NoLess(PullCounters(rd), PullCounters(rd'))
        /\ rlast'.op \in {"reset", "reset_data"} => AllZero(PullCounters(rd'))
        /\ rd'.inner.data.total_in <= PullTaken(rd')

\* C19: counters are monotone within a logical stream.  No write, flush,
\* finish or read makes total_in or total_out smaller; total_in never exceeds
\* the bytes taken from the caller or the source; and after reset or
\* reset_data both are 0.
C19_CountersMonotone == [][C19_PushStep /\ C19_PullStep]_vars

C19_Witness ==
    /\ rkind = "DR" /\ rlast.op = "reset_data" /\ rresets = 1
    /\ PullCounters(rd) = <<0, 0>> /\ PullTaken(rd) >= 3
    /\ Len(passes) = 0

\* ------------------------------------------- claims about reset of a reader
\* The step is a reset of the pull adapter.
C20_IsReset == rresets' = rresets + 1 /\ rlast'.op = "reset"

C20_Step ==
    C20_IsReset =>
        /\ rlast'.old = rd.inner.obj.inner
        /\ BufReader_window(rd'.inner.obj) = <<>>
        /\ rd'.inner.obj.inner = Source(rkind, src'.data, src'.plan)
        /\ PullCounters(rd') = <<0, 0>>

C20_AfterReset ==
    rresets >= 1 =>
        /\ rphase # "err"
        /\ IsPrefix(got, FreshPull(rkind, src.data).out)
        /\ rphase = "eof" => got = FreshPull(rkind, src.data).out

\* C20: pull reset discards the old window.  reset(r) returns the old source
\* as it stood, leaves an empty window over the untouched new source and a
\* fresh engine, so that what is read afterwards is what a new adapter over r
\* gives: no byte left over from the old source reaches the engine.
C20_ResetDiscardsWindow == [](C20_AfterReset) /\ [][C20_Step]_vars

C20_Witness ==
    /\ rkind = "DR" /\ rresets = 1 /\ rlast.op = "reset"
    /\ Len(rlast.lost) >= 1 /\ rlast.old.pos < Len(rlast.old.data)
    /\ rlast.old.data # src.data /\ src.data # <<>>

\* ---------------------------------------------------- claims about reset_data
\* The place in the source up to which the bytes have been consumed: what the
\* source has handed out less what is still unread in the window.
Cursor(a) == a.inner.obj.inner.pos - Len(BufReader_window(a.inner.obj))

C21_Step ==
    (rlast'.op = "reset_data" /\ rresets' = rresets + 1) =>
        /\ rd'.inner.obj = rd.inner.obj
        /\ PullCounters(rd') = <<0, 0>>
        /\ Cursor(rd') = IF Len(passes) = 1 THEN src.len ELSE Len(src.data)

\* Once both streams are decoded the source is used up, and a further
\* reset_data finds no stream to decode.
C21_BothDecoded ==
    /\ rphase = "err" => Len(passes) >= 2
    /\ Len(passes) >= 1 => passes[1] = src.payload
    /\ Len(passes) >= 2 => passes[2] = src.second
    /\ (rresets = 1 /\ rphase = "eof")
         => /\ passes = <<src.payload, src.second>>
            /\ PullCounters(rd) = <<Len(Deflate(src.second)), Len(src.second)>>
            /\ Cursor(rd) = Len(src.data)

\* C21: reset_data restarts decoding on the same source.  Called at the end
\* of a stream it leaves the source, its window and its cursor as they are,
\* with the cursor just after that stream, and sets both counters to 0; the
\* reads that follow decode the second stream in full, from its first byte.
C21_ResetDataRestarts == [](C21_BothDecoded) /\ [][C21_Step]_vars

C21_Witness ==
    /\ rresets = 1 /\ rphase = "eof" /\ Len(passes) = 2
    /\ Len(src.payload) >= 2 /\ Len(src.second) >= 2 /\ src.payload # src.second
    /\ src.plan = <<MaxFill>> /\ rd.inner.obj.cap = MaxWin

\* --------------------------------------------------- claims about pass-through
\* The adapter without the stream at the bottom: every engine, the Pending
\* Output Buffer of every push layer, the window of every pull layer.
PushCodec(a) ==
    IF a.inner.obj.kind = "Vec" THEN <<[a.inner EXCEPT !.obj = 0]>>
    ELSE <<[a.inner EXCEPT !.obj = 0], [a.inner.obj.inner EXCEPT !.obj = 0]>>

SourceOf(a) ==
    IF a.inner.obj.inner.kind = "Slice" THEN a.inner.obj.inner
    ELSE a.inner.obj.inner.inner.obj.inner

PullCodec(a) ==
    IF a.inner.obj.inner.kind = "Slice" THEN [a EXCEPT !.inner.obj.inner = 0]
    ELSE [a EXCEPT !.inner.obj.inner.inner.obj.inner = 0]

C22_PushStep ==
    (phase = "live" /\ pushvars' # pushvars /\ last'.op = "read") =>
        /\ PushCodec(w') = PushCodec(w)
        /\ SinkOf(w') = Vec_read(SinkOf(w), last'.n).self
        /\ last'.out = Vec_read(SinkOf(w), last'.n).out
        /\ last'.err = Vec_read(SinkOf(w), last'.n).err

C22_PullStep ==
    /\ (rphase \in {"live", "eof"} /\ pullvars' # pullvars /\ rlast'.op = "write") =>
          /\ PullCodec(rd') = PullCodec(rd)
          /\ SourceOf(rd') = Slice_write(SourceOf(rd), rlast'.buf).self
          /\ rlast'.ret = Slice_write(SourceOf(rd), rlast'.buf).ret
          /\ rlast'.err = Slice_write(SourceOf(rd), rlast'.buf).err
    /\ (rphase \in {"live", "eof"} /\ pullvars' # pullvars /\ rlast'.op = "flush") =>
          /\ PullCodec(rd') = PullCodec(rd)
          /\ SourceOf(rd') = Slice_flush(SourceOf(rd)).self
          /\ rlast'.err = Slice_flush(SourceOf(rd)).err

\* The raw calls leave no trace in what the codec delivers.
C22_CodecUndisturbed ==
    /\ rphase = "eof" => got = FreshPull(rkind, src.data).out
    /\ (phase = "finished" /\ clean /\ kind \in {"E", "D"})
         => GivenBack.bytes = FreshPush(kind, fed).bytes

\* C22: pass-through bypasses the codec.  A read on a push adapter, and a
\* write or flush on a pull adapter, does to the wrapped stream what the same
\* call made on it directly does and returns its result; every engine, the
\* Pending Output Buffer and the read window stay as they were.
C22_PassThrough == [](C22_CodecUndisturbed) /\ [][C22_PushStep /\ C22_PullStep]_vars

C22_Witness ==
    /\ kind = "ED" /\ phase = "live" /\ last.op = "read" /\ Len(last.out) = 2
    /\ w.inner.data.total_in >= 2 /\ w.inner.obj.inner.data.total_out >= 1
====
